---------------------------- MODULE Spec2Model ----------------------------
(***************************************************************************)
(* A model of maci/domainobjs/ts/index.ts: the domain objects PrivKey,     *)
(* PubKey, Keypair, Message, StateLeaf and Command, their textual          *)
(* serialisations, the sign / encrypt / decrypt protocol of Command, and   *)
(* copy().                                                                 *)
(*                                                                         *)
(* A JavaScript string is a sequence of one-character strings, a           *)
(* SnarkBigInt is an integer (snarkjs' bigInt is the native BigInt, a      *)
(* primitive compared by value), and a call that throws returns the        *)
(* record [threw |-> TRUE].  The primitives of maci-crypto are modelled    *)
(* on a small twisted Edwards curve over a field of SNARK_FIELD_SIZE       *)
(* elements.                                                               *)
(***************************************************************************)
EXTENDS Integers, Sequences, FiniteSets, TLC

VARIABLES
    \* the serialisation harness
    drawn,      \* which input the harness drew
    keyText,    \* the string handed to PrivKey.unserialize / isValidSerializedPrivKey
    keyOut,     \* what PrivKey.unserialize(keyText) returned
    validOut,   \* what PrivKey.isValidSerializedPrivKey(keyText) returned
    leafIn,     \* the StateLeaf last serialised
    leafText,   \* leafIn.serialize()
    leafOut,    \* StateLeaf.unserialize(leafText)
    pubIn,      \* the PubKey last serialised
    pubText,    \* pubIn.serialize()
    pubOut,     \* PubKey.unserialize(pubText)
    \* the command harness
    cmd,        \* the Command of A
    keyA,       \* the Keypair of A, who signs and encrypts
    keyB,       \* the Keypair of B, for whom A encrypts
    sig,        \* cmd.sign(keyA.privKey)
    plain,      \* the plaintext cmd.encrypt handed to encrypt
    encKey,     \* the shared key cmd was encrypted under
    msg,        \* cmd.encrypt(sig, encKey)
    decKey,     \* the shared key msg was decrypted under
    dec,        \* Command.decrypt(msg, decKey)
    verdict,    \* the last verifySignature: the command, the key, the result
    same,       \* the last equals: the other command, the result
    \* the keypair harness
    kpA,        \* a Keypair
    kpB,        \* another Keypair
    kpAssigned, \* whether a field of kpB was assigned since its construction
    kpSame,     \* kpA.equals(kpB)
    \* the construction harness
    made,       \* the last object asked for: by what, from what, and the result
    \* the copy harness
    heap,       \* the cells: objects and arrays, by address
    original,   \* the address of the object constructed
    copied,     \* the address of its copy, 0 before the copy
    assigns,    \* the number of assignments made
    last        \* the last step: the operation, and for an assignment the cell

commandVars == <<cmd, keyA, keyB, sig, plain, encKey, msg, decKey, dec, verdict, same>>
serialVars == <<drawn, keyText, keyOut, validOut, leafIn, leafText, leafOut,
                pubIn, pubText, pubOut>>
keypairVars == <<kpA, kpB, kpAssigned, kpSame>>
objectVars == <<made>>
copyVars == <<heap, original, copied, assigns, last>>
vars == <<serialVars, commandVars, keypairVars, objectVars, copyVars>>

exceptSerial == <<commandVars, keypairVars, objectVars, copyVars>>
exceptCommand == <<serialVars, keypairVars, objectVars, copyVars>>
exceptKeypair == <<serialVars, commandVars, objectVars, copyVars>>
exceptObject == <<serialVars, commandVars, keypairVars, copyVars>>
exceptCopy == <<serialVars, commandVars, keypairVars, objectVars>>

-----------------------------------------------------------------------------
(* Bounds and constants *)

\* The field modulus (a small prime stands for the BN254 scalar field order).
SNARK_FIELD_SIZE == 13

\* Longest remainder, after the seven characters of a prefix, of an input string.
MaxTail == 2

None == [threw |-> FALSE, none |-> TRUE]
Threw == [threw |-> TRUE]
Ok(v) == [threw |-> FALSE, value |-> v]
IsOk(r) == r # None /\ ~r.threw

\* The harnesses at rest (each in the specifications of the others).
KeypairIdle == kpA = None /\ kpB = None /\ kpAssigned = FALSE /\ kpSame = None

ObjectIdle == made = None

CopyIdle == heap = <<>> /\ original = 0 /\ copied = 0 /\ assigns = 0 /\ last = None

SerialIdle ==
    /\ drawn = "none" /\ keyText = <<>> /\ keyOut = None /\ validOut = None
    /\ pubIn = None /\ pubText = <<>> /\ pubOut = None
    /\ leafIn = None /\ leafText = <<>> /\ leafOut = None

CommandIdle ==
    /\ cmd = None /\ keyA = None /\ keyB = None /\ sig = None /\ plain = <<>>
    /\ encKey = -1 /\ msg = None /\ decKey = -1 /\ dec = None
    /\ verdict = None /\ same = None

-----------------------------------------------------------------------------
(* JavaScript strings and numbers *)

RECURSIVE Concat(_)
Concat(ss) == IF ss = <<>> THEN <<>> ELSE Head(ss) \o Concat(Tail(ss))

\* s.slice(n), n >= 0
Slice(s, n) == IF n >= Len(s) THEN <<>> ELSE SubSeq(s, n + 1, Len(s))

\* s.startsWith(p)
StartsWith(s, p) == Len(s) >= Len(p) /\ SubSeq(s, 1, Len(p)) = p

HexDigits == <<"0", "1", "2", "3", "4", "5", "6", "7", "8", "9",
               "a", "b", "c", "d", "e", "f">>
UpperHexDigits == <<"0", "1", "2", "3", "4", "5", "6", "7", "8", "9",
                    "A", "B", "C", "D", "E", "F">>

IsHexDigit(c) == \E i \in 1..16 : HexDigits[i] = c \/ UpperHexDigits[i] = c
DigitValue(c) == (CHOOSE i \in 1..16 : HexDigits[i] = c \/ UpperHexDigits[i] = c) - 1

RECURSIVE HexValue(_)
HexValue(x) ==
    IF x = <<>> THEN 0
    ELSE 16 * HexValue(SubSeq(x, 1, Len(x) - 1)) + DigitValue(x[Len(x)])

IsHex(x) == Len(x) > 0 /\ \A i \in 1..Len(x) : IsHexDigit(x[i])

\* bigInt('0x' + x): BigInt of a hexadecimal literal; a SyntaxError when no
\* hexadecimal digits follow the 0x or a character is no hexadecimal digit.
BigIntOfHex(x) == IF IsHex(x) THEN Ok(HexValue(x)) ELSE Threw

RECURSIVE NatToHex(_)
NatToHex(n) ==
    IF n < 16 THEN <<HexDigits[n + 1]>>
    ELSE NatToHex(n \div 16) \o <<HexDigits[(n % 16) + 1]>>

\* n.toString(16)
ToString16(n) == IF n < 0 THEN <<"-">> \o NatToHex(-n) ELSE NatToHex(n)

RECURSIVE NatToDecimal(_)
NatToDecimal(n) ==
    IF n < 10 THEN <<HexDigits[n + 1]>>
    ELSE NatToDecimal(n \div 10) \o <<HexDigits[(n % 10) + 1]>>

\* n.toString()
ToString10(n) == IF n < 0 THEN <<"-">> \o NatToDecimal(-n) ELSE NatToDecimal(n)

RECURSIVE DecimalValue(_)
DecimalValue(s) ==
    IF s = <<>> THEN 0
    ELSE 10 * DecimalValue(SubSeq(s, 1, Len(s) - 1)) + DigitValue(s[Len(s)])

\* bigInt(s) of the decimal numeral s that toString() returned
BigIntOfDecimal(s) ==
    IF s[1] = "-" THEN -DecimalValue(SubSeq(s, 2, Len(s))) ELSE DecimalValue(s)

\* bigInt(n.toString()): a new primitive of the value of n
Clone(n) == BigIntOfDecimal(ToString10(n))

-----------------------------------------------------------------------------
(* The external library: curve and keys *)

P == SNARK_FIELD_SIZE

Mod(n) == ((n % P) + P) % P

\* The curve a*x^2 + y^2 = 1 + d*x^2*y^2 over the field, its base point and
\* the order of the base point.
CurveA == 1
CurveD == 6
Base8 == <<5, 2>>
SubOrder == 12

OnCurve(pt) ==
    /\ pt[1] \in 0..(P - 1) /\ pt[2] \in 0..(P - 1)
    /\ Mod(CurveA * pt[1] * pt[1] + pt[2] * pt[2])
         = Mod(1 + CurveD * pt[1] * pt[1] * pt[2] * pt[2])

CurvePoints == {pt \in (0..(P - 1)) \X (0..(P - 1)) : OnCurve(pt)}

Inverse(v) == CHOOSE w \in 1..(P - 1) : Mod(v * w) = 1

AddPoint(p1, p2) ==
    LET t == Mod(CurveD * p1[1] * p2[1] * p1[2] * p2[2])
    IN  << Mod((p1[1] * p2[2] + p1[2] * p2[1]) * Inverse(Mod(1 + t))),
           Mod((p1[2] * p2[2] + (P - CurveA) * p1[1] * p2[1]) * Inverse(Mod(1 - t))) >>

RECURSIVE MulPointEscalar(_, _)
MulPointEscalar(pt, k) ==
    IF k = 0 THEN <<0, 1>> ELSE AddPoint(pt, MulPointEscalar(pt, k - 1))

\* Private scalars: the non-zero scalars below the order of the base point.
PrivScalars == 1..(SubOrder - 1)

PubKeyTable == [k \in PrivScalars |-> MulPointEscalar(Base8, k)]

\* formatPrivKeyForBabyJub(rawPrivKey): the scalar a private key stands for;
\* one to one on the private scalars.
formatPrivKeyForBabyJub(k) == 1 + (((k % (SubOrder - 1)) + SubOrder - 1) % (SubOrder - 1))

\* genPubKey(rawPrivKey)
genPubKey(k) == PubKeyTable[formatPrivKeyForBabyJub(k)]

EcdhTable == [k \in PrivScalars |-> [pt \in CurvePoints |-> MulPointEscalar(pt, k)[1]]]

\* genEcdhSharedKey(rawPrivKey, rawPubKey)
genEcdhSharedKey(k, pub) == EcdhTable[formatPrivKeyForBabyJub(k)][pub]

\* packPubKey(rawPubKey): the y coordinate with the sign of x in the top bit,
\* as one byte.
packPubKey(pub) == << pub[2] + (IF pub[1] > (P - 1) \div 2 THEN 128 ELSE 0) >>

\* unpackPubKey(packed): the point of the curve with that y and that sign of
\* x; null (here Threw) when there is none or packed is not one byte.
unpackPubKey(packed) ==
    LET y == IF Len(packed) = 1 THEN packed[1] % 128 ELSE P
        sign == Len(packed) = 1 /\ packed[1] >= 128
        xs == {x \in 0..(P - 1) : OnCurve(<<x, y>>) /\ (x > (P - 1) \div 2) = sign}
    IN  IF y < P /\ xs # {} THEN Ok(<<CHOOSE x \in xs : TRUE, y>>) ELSE Threw

-----------------------------------------------------------------------------
(* Node's Buffer and JSON *)

\* The printable ASCII characters, from code 32 to code 126 (the grave accent,
\* which no string literal can hold, by its name).
AsciiChars ==
    <<" ", "!", "\"", "#", "$", "%", "&", "'", "(", ")", "*", "+", ",",
      "-", ".", "/", "0", "1", "2", "3", "4", "5", "6", "7", "8", "9", ":",
      ";", "<", "=", ">", "?", "@", "A", "B", "C", "D", "E", "F", "G", "H",
      "I", "J", "K", "L", "M", "N", "O", "P", "Q", "R", "S", "T", "U", "V",
      "W", "X", "Y", "Z", "[", "\\", "]", "^", "_", "grave", "a", "b", "c",
      "d", "e", "f", "g", "h", "i", "j", "k", "l", "m", "n", "o", "p", "q",
      "r", "s", "t", "u", "v", "w", "x", "y", "z", "{", "|", "}", "~">>

CharCodeTable == [c \in {AsciiChars[i] : i \in 1..Len(AsciiChars)} |->
                    31 + (CHOOSE i \in 1..Len(AsciiChars) : AsciiChars[i] = c)]

\* Buffer.from(text, 'utf8')
Utf8Bytes(text) == [i \in 1..Len(text) |-> CharCodeTable[text[i]]]

\* buf.toString('utf8'); a byte that is no printable ASCII character decodes
\* to a character no JSON text of this program holds.
Utf8Text(buf) ==
    [i \in 1..Len(buf) |-> IF buf[i] \in 32..126 THEN AsciiChars[buf[i] - 31] ELSE "\\"]

Base64Chars ==
    <<"A", "B", "C", "D", "E", "F", "G", "H", "I", "J", "K", "L", "M", "N",
      "O", "P", "Q", "R", "S", "T", "U", "V", "W", "X", "Y", "Z", "a", "b",
      "c", "d", "e", "f", "g", "h", "i", "j", "k", "l", "m", "n", "o", "p",
      "q", "r", "s", "t", "u", "v", "w", "x", "y", "z", "0", "1", "2", "3",
      "4", "5", "6", "7", "8", "9", "+", "/">>

Base64Digits == {Base64Chars[i] : i \in 1..64}
Base64Value == [c \in Base64Digits |-> (CHOOSE i \in 1..64 : Base64Chars[i] = c) - 1]

\* buf.toString('base64'): each group of three bytes as four digits, the
\* last group padded with "=".
Base64Encode(buf) ==
    LET n == Len(buf)
        at(k) == IF k <= n THEN buf[k] ELSE 0
    IN  [i \in 1..(4 * ((n + 2) \div 3)) |->
            LET g == 3 * ((i - 1) \div 4)
                r == (i - 1) % 4
            IN  IF r = 0 THEN Base64Chars[(at(g + 1) \div 4) + 1]
                ELSE IF r = 1
                THEN Base64Chars[((at(g + 1) % 4) * 16 + at(g + 2) \div 16) + 1]
                ELSE IF r = 2
                THEN IF g + 2 > n THEN "="
                     ELSE Base64Chars[((at(g + 2) % 16) * 4 + at(g + 3) \div 64) + 1]
                ELSE IF g + 3 > n THEN "=" ELSE Base64Chars[(at(g + 3) % 64) + 1]]

\* The characters of text before the first one that is no base64 digit.
Base64Prefix(text) ==
    LET bad == {i \in 1..Len(text) : text[i] \notin Base64Digits}
    IN  IF bad = {} THEN text
        ELSE SubSeq(text, 1, (CHOOSE i \in bad : \A k \in bad : i <= k) - 1)

\* Buffer.from(text, 'base64'): never throws; decoding stops at the padding,
\* and a last group of two or three digits gives one or two bytes.
Base64Decode(text) ==
    LET ds == Base64Prefix(text)
        m == Len(ds)
        n == 3 * (m \div 4) + (IF m % 4 = 2 THEN 1 ELSE IF m % 4 = 3 THEN 2 ELSE 0)
        v(k) == Base64Value[ds[k]]
    IN  [j \in 1..n |->
            LET g == 4 * ((j - 1) \div 3)
                r == (j - 1) % 3
            IN  IF r = 0 THEN v(g + 1) * 4 + v(g + 2) \div 16
                ELSE IF r = 1 THEN (v(g + 2) % 16) * 16 + v(g + 3) \div 4
                ELSE (v(g + 3) % 4) * 64 + v(g + 4)]

\* buf.toString('hex')
RECURSIVE BufferToHex(_)
BufferToHex(buf) ==
    IF buf = <<>> THEN <<>>
    ELSE << HexDigits[(Head(buf) \div 16) + 1], HexDigits[(Head(buf) % 16) + 1] >>
         \o BufferToHex(Tail(buf))

\* Buffer.from(text, 'hex'): never throws; decoding stops at the first pair
\* that is not two hexadecimal digits.
RECURSIVE BufferFromHex(_)
BufferFromHex(text) ==
    IF Len(text) < 2 \/ ~IsHexDigit(text[1]) \/ ~IsHexDigit(text[2]) THEN <<>>
    ELSE << 16 * DigitValue(text[1]) + DigitValue(text[2]) >>
         \o BufferFromHex(SubSeq(text, 3, Len(text)))

Quote == <<"\"">>

\* JSON.stringify(j, null, 0) of an object whose members, a sequence of
\* <<name, value>>, are strings without a character to escape.
RECURSIVE JsonMembers(_)
JsonMembers(ms) ==
    IF ms = <<>> THEN <<>>
    ELSE Quote \o ms[1][1] \o Quote \o <<":">> \o Quote \o ms[1][2] \o Quote
         \o (IF Len(ms) = 1 THEN <<>> ELSE <<",">> \o JsonMembers(Tail(ms)))

JsonStringify(ms) == <<"{">> \o JsonMembers(ms) \o <<"}">>

\* The index of the first quote of text at or after i, 0 when there is none
\* or a backslash or control character comes first.
RECURSIVE StringEnd(_, _)
StringEnd(text, i) ==
    IF i > Len(text) \/ text[i] = "\\" THEN 0
    ELSE IF text[i] = "\"" THEN i
    ELSE StringEnd(text, i + 1)

\* JSON.parse of the members of an object from index i on: "name":"value"
\* followed by a comma and more members, or by the closing brace that ends
\* the text.
RECURSIVE JsonParseMembers(_, _)
JsonParseMembers(text, i) ==
    IF i > Len(text) \/ text[i] # "\"" THEN Threw
    ELSE LET k == StringEnd(text, i + 1)
         IN  IF k = 0 \/ k + 2 > Len(text) \/ text[k + 1] # ":" \/ text[k + 2] # "\""
             THEN Threw
             ELSE LET v == StringEnd(text, k + 3)
                      m == << SubSeq(text, i + 1, k - 1), SubSeq(text, k + 3, v - 1) >>
                  IN  IF v = 0 \/ v + 1 > Len(text) THEN Threw
                      ELSE IF text[v + 1] = "}"
                           THEN IF v + 1 = Len(text) THEN Ok(<<m>>) ELSE Threw
                      ELSE IF text[v + 1] # "," THEN Threw
                      ELSE LET rest == JsonParseMembers(text, v + 2)
                           IN  IF rest.threw THEN Threw ELSE Ok(<<m>> \o rest.value)

\* JSON.parse(text) for a text that is an object of string members; a
\* SyntaxError otherwise.
JsonParse(text) ==
    IF Len(text) < 2 \/ text[1] # "{" THEN Threw
    ELSE IF text = <<"{", "}">> THEN Ok(<<>>)
    ELSE JsonParseMembers(text, 2)

\* j[name]: the value of the last member of that name; undefined (here
\* Threw) when there is none.
JsonGet(ms, name) ==
    LET is == {i \in 1..Len(ms) : ms[i][1] = name}
    IN  IF is = {} THEN Threw
        ELSE Ok(ms[CHOOSE i \in is : \A k \in is : k <= i][2])

-----------------------------------------------------------------------------
(* PrivKey *)

SERIALIZED_PRIV_KEY_PREFIX == <<"m", "a", "c", "i", "s", "k", ".">>

\* new PrivKey(rawPrivKey)
NewPrivKey(rawPrivKey) == [rawPrivKey |-> rawPrivKey]

PrivKeySerialize(k) == SERIALIZED_PRIV_KEY_PREFIX \o ToString16(k.rawPrivKey)

PrivKeyUnserialize(s) ==
    LET x == Slice(s, Len(SERIALIZED_PRIV_KEY_PREFIX))
        value == BigIntOfHex(x)
    IN  IF value.threw THEN Threw ELSE Ok(NewPrivKey(value.value))

\* A faulty variant of isValidSerializedPrivKey: the bound compared with <= .
IsValidSerializedPrivKeyInclusive(s) ==
    LET correctPrefix == StartsWith(s, SERIALIZED_PRIV_KEY_PREFIX)
        value == BigIntOfHex(Slice(s, Len(SERIALIZED_PRIV_KEY_PREFIX)))
        validValue == IF value.threw THEN FALSE ELSE value.value <= SNARK_FIELD_SIZE
    IN  Ok(correctPrefix /\ validValue)

IsValidSerializedPrivKey(s) ==
    LET correctPrefix == StartsWith(s, SERIALIZED_PRIV_KEY_PREFIX)
        x == Slice(s, Len(SERIALIZED_PRIV_KEY_PREFIX))
        value == BigIntOfHex(x)
        \* try { validValue = value < SNARK_FIELD_SIZE } catch { }
        validValue == IF value.threw THEN FALSE ELSE value.value < SNARK_FIELD_SIZE
    IN  Ok(correctPrefix /\ validValue)

-----------------------------------------------------------------------------
(* PubKey *)

SERIALIZED_PUB_KEY_PREFIX == <<"m", "a", "c", "i", "p", "k", ".">>

\* new PubKey(rawPubKey): the three assertions of the constructor.  A
\* rawPubKey that is null (an unpackPubKey that failed) arrives as Threw.
NewPubKey(rawPubKey) ==
    IF Len(rawPubKey) # 2 THEN Threw
    ELSE IF ~(rawPubKey[1] < SNARK_FIELD_SIZE) THEN Threw
    ELSE IF ~(rawPubKey[2] < SNARK_FIELD_SIZE) THEN Threw
    ELSE Ok([rawPubKey |-> rawPubKey])

PubKeyAsArray(pk) == <<pk.rawPubKey[1], pk.rawPubKey[2]>>

\* A faulty variant of PubKey.serialize: the blank key packed like any other.
PubKeySerializePacked(pk) ==
    SERIALIZED_PUB_KEY_PREFIX \o BufferToHex(packPubKey(pk.rawPubKey))

PubKeySerialize(pk) ==
    IF pk.rawPubKey[1] = 0 /\ pk.rawPubKey[2] = 0
    THEN SERIALIZED_PUB_KEY_PREFIX \o <<"z">>
    ELSE SERIALIZED_PUB_KEY_PREFIX \o BufferToHex(packPubKey(pk.rawPubKey))

PubKeyUnserialize(s) ==
    IF s = SERIALIZED_PUB_KEY_PREFIX \o <<"z">> THEN NewPubKey(<<0, 0>>)
    ELSE LET len == Len(SERIALIZED_PUB_KEY_PREFIX)
             packed == BufferFromHex(Slice(s, len))
             raw == unpackPubKey(packed)
         IN  IF raw.threw THEN Threw ELSE NewPubKey(raw.value)

IsValidSerializedPubKey(s) ==
    LET correctPrefix == StartsWith(s, SERIALIZED_PUB_KEY_PREFIX)
        validValue == ~PubKeyUnserialize(s).threw
    IN  Ok(correctPrefix /\ validValue)

-----------------------------------------------------------------------------
(* StateLeaf *)

\* new StateLeaf(pubKey, voteOptionTreeRoot, voiceCreditBalance, nonce)
NewStateLeaf(pubKey, voteOptionTreeRoot, voiceCreditBalance, nonce) ==
    [ pubKey |-> pubKey,
      voteOptionTreeRoot |-> voteOptionTreeRoot,
      voiceCreditBalance |-> voiceCreditBalance,
      nonce |-> nonce ]

GenBlankLeaf(emptyVoteOptionTreeRoot) ==
    LET pubKey == NewPubKey(<<0, 0>>)
    IN  IF pubKey.threw THEN Threw
        ELSE Ok(NewStateLeaf(pubKey.value, emptyVoteOptionTreeRoot, 0, 0))

StateLeafAsArray(l) ==
    PubKeyAsArray(l.pubKey) \o <<l.voteOptionTreeRoot, l.voiceCreditBalance, l.nonce>>

KeyPubKey == <<"p", "u", "b", "K", "e", "y">>
KeyVoteOptionTreeRoot == <<"v", "o", "t", "e", "O", "p", "t", "i", "o", "n", "T", "r", "e", "e", "R", "o", "o", "t">>
KeyVoiceCreditBalance == <<"v", "o", "i", "c", "e", "C", "r", "e", "d", "i", "t", "B", "a", "l", "a", "n", "c", "e">>
KeyNonce == <<"n", "o", "n", "c", "e">>

\* The object j of StateLeaf.serialize, as JSON text.
StateLeafJson(l) ==
    JsonStringify(<< <<KeyPubKey, PubKeySerialize(l.pubKey)>>,
                     <<KeyVoteOptionTreeRoot, ToString16(l.voteOptionTreeRoot)>>,
                     <<KeyVoiceCreditBalance, ToString16(l.voiceCreditBalance)>>,
                     <<KeyNonce, ToString16(l.nonce)>> >>)

StateLeafSerialize(l) == Base64Encode(Utf8Bytes(StateLeafJson(l)))

\* bigInt('0x' + j[name]); "0xundefined" when j has no such member.
JsonBigInt(j, name) ==
    LET m == JsonGet(j, name)
    IN  IF m.threw THEN Threw ELSE BigIntOfHex(m.value)

StateLeafUnserialize(serializedText) ==
    LET j == JsonParse(Utf8Text(Base64Decode(serializedText)))
    IN  IF j.threw THEN Threw
        ELSE LET pk == JsonGet(j.value, KeyPubKey)
                 pubKey == IF pk.threw THEN Threw ELSE PubKeyUnserialize(pk.value)
                 voteOptionTreeRoot == JsonBigInt(j.value, KeyVoteOptionTreeRoot)
                 voiceCreditBalance == JsonBigInt(j.value, KeyVoiceCreditBalance)
                 nonce == JsonBigInt(j.value, KeyNonce)
             IN  IF pubKey.threw \/ voteOptionTreeRoot.threw
                    \/ voiceCreditBalance.threw \/ nonce.threw
                 THEN Threw
                 ELSE Ok(NewStateLeaf(pubKey.value, voteOptionTreeRoot.value,
                                      voiceCreditBalance.value, nonce.value))

-----------------------------------------------------------------------------
(* The external library: hash, signature, encryption *)

\* hash11 of the elements of a command: a hash without collisions, here the
\* number whose digits in base SNARK_FIELD_SIZE are the (field) elements.
RECURSIVE hash11(_)
hash11(elements) ==
    IF elements = <<>> THEN 0
    ELSE Head(elements) + SNARK_FIELD_SIZE * hash11(Tail(elements))

\* sign(rawPrivKey, hash): a signature only the holder of rawPrivKey makes,
\* and only for that hash.
sign(k, h) ==
    [ R8 |-> PubKeyTable[1 + ((h + k) % (SubOrder - 1))],
      S |-> h * SubOrder + k ]

\* verifySignature(hash, signature, rawPubKey)
verifySignature(h, signature, pub) ==
    \E k \in PrivScalars : genPubKey(k) = pub /\ signature = sign(k, h)

RECURSIVE Sum(_)
Sum(xs) == IF xs = <<>> THEN 0 ELSE Head(xs) + Sum(Tail(xs))

\* The pad of element i under a shared key and an iv.
Pad(sharedKey, iv, i) == Mod(sharedKey * (i + 1) + iv + 3 * i)

\* encrypt(plaintext, sharedKey): an iv made from the plaintext, and each
\* element plus its pad.
encrypt(plaintext, sharedKey) ==
    LET iv == Mod(Sum(plaintext))
    IN  [ iv |-> iv,
          data |-> [i \in 1..Len(plaintext) |-> plaintext[i] + Pad(sharedKey, iv, i)] ]

\* decrypt(message, sharedKey): each element less its pad.
decrypt(message, sharedKey) ==
    [i \in 1..Len(message.data) |-> message.data[i] - Pad(sharedKey, message.iv, i)]

-----------------------------------------------------------------------------
(* Keypair *)

\* new Keypair(privKey), for a PrivKey of a private scalar
NewKeypair(privKeyObject) ==
    [ privKey |-> privKeyObject,
      pubKey |-> NewPubKey(genPubKey(privKeyObject.rawPrivKey)).value ]

\* new Keypair(): genKeypair() draws the private scalar k
GenKeypair(k) ==
    [ privKey |-> NewPrivKey(k), pubKey |-> NewPubKey(genPubKey(k)).value ]

KeypairGenEcdhSharedKey(privKeyObject, pubKeyObject) ==
    genEcdhSharedKey(privKeyObject.rawPrivKey, pubKeyObject.rawPubKey)

\* A faulty variant of Keypair.equals: the assertion left out.
KeypairEqualsUnchecked(this, keypair) ==
    Ok(this.privKey.rawPrivKey = keypair.privKey.rawPrivKey)

KeypairEquals(this, keypair) ==
    LET equalPrivKey == this.privKey.rawPrivKey = keypair.privKey.rawPrivKey
        equalPubKey ==
            /\ this.pubKey.rawPubKey[1] = keypair.pubKey.rawPubKey[1]
            /\ this.pubKey.rawPubKey[2] = keypair.pubKey.rawPubKey[2]
        x == equalPrivKey /\ equalPubKey
        y == ~equalPrivKey /\ ~equalPubKey
    IN  IF ~((x /\ ~y) \/ (~x /\ y)) THEN Threw ELSE Ok(equalPrivKey)

-----------------------------------------------------------------------------
(* Message *)

\* new Message(iv, data)
NewMessage(iv, data) ==
    IF Len(data) # 10 THEN Threw ELSE Ok([iv |-> iv, data |-> data])

MessageAsArray(m) == <<m.iv>> \o m.data

-----------------------------------------------------------------------------
(* Command *)

\* new Command(stateIndex, newPubKey, voteOptionIndex, newVoteWeight, nonce, salt)
NewCommand(stateIndex, newPubKey, voteOptionIndex, newVoteWeight, nonce, salt) ==
    [ stateIndex |-> stateIndex,
      newPubKey |-> newPubKey,
      voteOptionIndex |-> voteOptionIndex,
      newVoteWeight |-> newVoteWeight,
      nonce |-> nonce,
      salt |-> salt ]

\* A faulty variant of Command.asArray: the salt left out of the vector.
CommandAsArrayUnsalted(c) ==
    <<c.stateIndex>> \o PubKeyAsArray(c.newPubKey)
        \o <<c.voteOptionIndex, c.newVoteWeight, c.nonce, 0>>

CommandAsArray(c) ==
    <<c.stateIndex>> \o PubKeyAsArray(c.newPubKey)
        \o <<c.voteOptionIndex, c.newVoteWeight, c.nonce, c.salt>>

\* object[i] of an object that is no array and has no property i: undefined.
IndexOfObject(object, i) == "undefined"

CommandEquals(this, command) ==
    /\ this.stateIndex = command.stateIndex
    /\ IndexOfObject(this.newPubKey, 0) = IndexOfObject(command.newPubKey, 0)
    /\ IndexOfObject(this.newPubKey, 1) = IndexOfObject(command.newPubKey, 1)
    /\ this.voteOptionIndex = command.voteOptionIndex
    /\ this.newVoteWeight = command.newVoteWeight
    /\ this.nonce = command.nonce
    /\ this.salt = command.salt

CommandHash(c) == hash11(CommandAsArray(c))

CommandSign(c, privKeyObject) == sign(privKeyObject.rawPrivKey, CommandHash(c))

CommandVerifySignature(c, signature, pubKeyObject) ==
    verifySignature(CommandHash(c), signature, pubKeyObject.rawPubKey)

\* The plaintext Command.encrypt hands to encrypt.
CommandPlaintext(c, signature) ==
    CommandAsArray(c) \o <<signature.R8[1], signature.R8[2], signature.S>>

CommandEncrypt(c, signature, sharedKey) ==
    LET ciphertext == encrypt(CommandPlaintext(c, signature), sharedKey)
    IN  NewMessage(ciphertext.iv, ciphertext.data)

\* A faulty variant of Command.decrypt: the two coordinates of R8 exchanged.
CommandDecryptSwapped(message, sharedKey) ==
    LET decrypted == decrypt(message, sharedKey)
        newPubKey == NewPubKey(<<decrypted[2], decrypted[3]>>)
    IN  IF newPubKey.threw THEN Threw
        ELSE Ok([ command |-> NewCommand(decrypted[1], newPubKey.value, decrypted[4],
                                         decrypted[5], decrypted[6], decrypted[7]),
                  signature |-> [R8 |-> <<decrypted[9], decrypted[8]>>,
                                 S |-> decrypted[10]] ])

CommandDecrypt(message, sharedKey) ==
    LET decrypted == decrypt(message, sharedKey)
        newPubKey == NewPubKey(<<decrypted[2], decrypted[3]>>)
    IN  IF newPubKey.threw THEN Threw
        ELSE Ok([ command |-> NewCommand(decrypted[1], newPubKey.value, decrypted[4],
                                         decrypted[5], decrypted[6], decrypted[7]),
                  signature |-> [R8 |-> <<decrypted[8], decrypted[9]>>,
                                 S |-> decrypted[10]] ])

-----------------------------------------------------------------------------
(* The serialisation harness: a caller that serialises and unserialises *)

\* The first seven characters of an input string: the two prefixes, and
\* strings of seven and of fewer characters that are neither.
Heads == { SERIALIZED_PRIV_KEY_PREFIX, SERIALIZED_PUB_KEY_PREFIX,
           <<"x", "a", "c", "i", "s", "k", ".">>, <<"m", "a", "c", "i", "s", "k">>, <<>> }

TailChars == {"0", "5", "8", "c", "C", "d", "f", "g"}

RECURSIVE SeqsUpTo(_, _)
SeqsUpTo(S, n) ==
    IF n = 0 THEN {<<>>}
    ELSE LET shorter == SeqsUpTo(S, n - 1)
         IN  shorter \cup {<<c>> \o x : c \in S, x \in {y \in shorter : Len(y) = n - 1}}

Tails == SeqsUpTo(TailChars, MaxTail)

InputStrings == {h \o x : h \in Heads, x \in Tails}

\* Numeric fields a caller may hand over: field elements, and the nearest
\* values on either side of the field.
FieldInputs == {-1, 0, 1, 10, SNARK_FIELD_SIZE - 1, SNARK_FIELD_SIZE}

\* Public keys a StateLeaf may hold: the points of the curve, the blank
\* leaf's (0, 0), and pairs of field elements that are no point of the curve.
PubKeyInputs == CurvePoints \cup {<<0, 0>>, <<1, 1>>, <<3, 3>>}

\* The harness draws one input: a string, a PubKey the constructor accepted,
\* or a StateLeaf holding such a PubKey.
SerialInit ==
    /\ CommandIdle /\ KeypairIdle /\ ObjectIdle /\ CopyIdle
    /\ keyOut = None /\ validOut = None
    /\ pubText = <<>> /\ pubOut = None
    /\ leafText = <<>> /\ leafOut = None
    /\ \/ /\ drawn = "string"
          /\ keyText \in InputStrings
          /\ pubIn = None /\ leafIn = None
       \/ /\ drawn = "PubKey"
          /\ \E raw \in PubKeyInputs :
                ~NewPubKey(raw).threw /\ pubIn = NewPubKey(raw).value
          /\ keyText = <<>> /\ leafIn = None
       \/ /\ drawn = "StateLeaf"
          /\ \E raw \in PubKeyInputs, root \in FieldInputs,
                balance \in FieldInputs, nonce \in FieldInputs :
                /\ ~NewPubKey(raw).threw
                /\ leafIn = NewStateLeaf(NewPubKey(raw).value, root, balance, nonce)
          /\ keyText = <<>> /\ pubIn = None

\* PrivKey.unserialize(keyText)
CallPrivKeyUnserialize ==
    /\ drawn = "string" /\ keyOut = None
    /\ keyOut' = PrivKeyUnserialize(keyText)
    /\ UNCHANGED <<drawn, keyText, validOut, pubIn, pubText, pubOut,
                   leafIn, leafText, leafOut>>
    /\ UNCHANGED exceptSerial

\* PrivKey.isValidSerializedPrivKey(keyText)
CallIsValidSerializedPrivKey ==
    /\ drawn = "string" /\ validOut = None
    /\ validOut' = IsValidSerializedPrivKey(keyText)
    /\ UNCHANGED <<drawn, keyText, keyOut, pubIn, pubText, pubOut,
                   leafIn, leafText, leafOut>>
    /\ UNCHANGED exceptSerial

\* pubIn.serialize()
CallPubKeySerialize ==
    /\ drawn = "PubKey" /\ pubText = <<>>
    /\ pubText' = PubKeySerialize(pubIn)
    /\ UNCHANGED <<drawn, keyText, keyOut, validOut, pubIn, pubOut,
                   leafIn, leafText, leafOut>>
    /\ UNCHANGED exceptSerial

\* PubKey.unserialize(pubText)
CallPubKeyUnserialize ==
    /\ drawn = "PubKey" /\ pubText # <<>> /\ pubOut = None
    /\ pubOut' = PubKeyUnserialize(pubText)
    /\ UNCHANGED <<drawn, keyText, keyOut, validOut, pubIn, pubText,
                   leafIn, leafText, leafOut>>
    /\ UNCHANGED exceptSerial

\* leafIn.serialize()
CallStateLeafSerialize ==
    /\ drawn = "StateLeaf" /\ leafText = <<>>
    /\ leafText' = StateLeafSerialize(leafIn)
    /\ UNCHANGED <<drawn, keyText, keyOut, validOut, pubIn, pubText, pubOut,
                   leafIn, leafOut>>
    /\ UNCHANGED exceptSerial

\* StateLeaf.unserialize(leafText)
CallStateLeafUnserialize ==
    /\ drawn = "StateLeaf" /\ leafText # <<>> /\ leafOut = None
    /\ leafOut' = StateLeafUnserialize(leafText)
    /\ UNCHANGED <<drawn, keyText, keyOut, validOut, pubIn, pubText, pubOut,
                   leafIn, leafText>>
    /\ UNCHANGED exceptSerial

SerialNext ==
    \/ CallPrivKeyUnserialize
    \/ CallIsValidSerializedPrivKey
    \/ CallPubKeySerialize
    \/ CallPubKeyUnserialize
    \/ CallStateLeafSerialize
    \/ CallStateLeafUnserialize

SpecSerial == SerialInit /\ [][SerialNext]_vars

-----------------------------------------------------------------------------
(* Claims about serialisation *)

IsFieldElement(v) == v \in 0..(SNARK_FIELD_SIZE - 1)

LowerCase(c) ==
    IF \E i \in 1..16 : UpperHexDigits[i] = c
    THEN HexDigits[CHOOSE i \in 1..16 : UpperHexDigits[i] = c]
    ELSE c

\* x is a hexadecimal numeral of n: hexadecimal digits, and n written in
\* base 16 after any leading zeros.
IsNumeralOf(x, n) ==
    /\ Len(x) > 0
    /\ \A i \in 1..Len(x) : LowerCase(x[i]) \in {HexDigits[k] : k \in 1..16}
    /\ \E z \in 0..Len(x) :
        /\ \A i \in 1..z : x[i] = "0"
        /\ [i \in 1..(Len(x) - z) |-> LowerCase(x[z + i])]
             = (IF n = 0 THEN <<>> ELSE ToString16(n))

KeyRemainder == Slice(keyText, 7)
KeyHasPrefix == Len(keyText) >= 7 /\ SubSeq(keyText, 1, 7) = SERIALIZED_PRIV_KEY_PREFIX

\* C5 (as claimed): PrivKey.unserialize(s) fails for every s that does not
\* begin with "macisk." and for every s whose remainder is not hexadecimal;
\* it never returns a PrivKey for a string without the prefix.
C5_UnserializeRejectsBadStrings ==
    (drawn = "string" /\ keyOut # None) =>
        ((~KeyHasPrefix \/ ~\E n \in 0..255 : IsNumeralOf(KeyRemainder, n))
            => keyOut.threw)

\* C6: isValidSerializedPrivKey(s) returns a boolean and never throws; it is
\* true exactly when s starts with "macisk." and the remainder is a
\* hexadecimal numeral of a value below the field modulus.
C6_IsValidIffPrefixAndBelowModulus ==
    (drawn = "string" /\ validOut # None) =>
        /\ ~validOut.threw
        /\ validOut.value \in BOOLEAN
        /\ validOut.value =
             (KeyHasPrefix /\ \E n \in 0..(SNARK_FIELD_SIZE - 1) : IsNumeralOf(KeyRemainder, n))

\* C6's case: the prefix, then the modulus itself in hexadecimal, is invalid.
C6_Witness ==
    /\ drawn = "string"
    /\ KeyHasPrefix
    /\ KeyRemainder = ToString16(SNARK_FIELD_SIZE)
    /\ validOut = Ok(FALSE)

IsBlankKey(pk) == pk.rawPubKey = <<0, 0>>
IsValidPubKey(pk) == IsBlankKey(pk) \/ pk.rawPubKey \in CurvePoints
IsValidLeaf(l) ==
    /\ IsValidPubKey(l.pubKey)
    /\ IsFieldElement(l.voteOptionTreeRoot)
    /\ IsFieldElement(l.voiceCreditBalance)
    /\ IsFieldElement(l.nonce)

BlankKeyText == SERIALIZED_PUB_KEY_PREFIX \o <<"z">>

\* C7: a StateLeaf whose pubKey is (0, 0) or a point of the curve and whose
\* numeric fields are field elements unserialises from its serialisation to
\* a leaf with the same fields, and so does such a PubKey; the key (0, 0)
\* serialises to the literal "macipk.z", also inside a leaf, and that text
\* unserialises to (0, 0).
C7_LeafRoundTrip ==
    /\ (drawn = "StateLeaf" /\ leafOut # None /\ IsValidLeaf(leafIn))
          => leafOut = Ok(leafIn)
    /\ (drawn = "PubKey" /\ pubOut # None /\ IsValidPubKey(pubIn))
          => pubOut = Ok(pubIn)
    /\ (drawn = "PubKey" /\ pubText # <<>> /\ IsBlankKey(pubIn))
          => pubText = BlankKeyText
    /\ (drawn = "StateLeaf" /\ leafText # <<>> /\ IsBlankKey(leafIn.pubKey))
          => JsonGet(JsonParse(Utf8Text(Base64Decode(leafText))).value, KeyPubKey)
               = Ok(BlankKeyText)

\* C7's case: a blank leaf with a field that needs a hexadecimal digit has
\* come back from its serialisation.
C7_Witness ==
    /\ drawn = "StateLeaf"
    /\ leafOut # None
    /\ IsBlankKey(leafIn.pubKey)
    /\ leafIn.voteOptionTreeRoot = 10
    /\ leafOut = Ok(leafIn)

-----------------------------------------------------------------------------
(* The command harness: a caller A that signs a command and encrypts it for  *)
(* B, and callers that verify, compare and decrypt                           *)

\* The values the harness draws for the seven elements of a command, and the
\* values it changes one of them to.
CommandInputs == {1, SNARK_FIELD_SIZE - 1}
ChangedInputs == {0, 1, SNARK_FIELD_SIZE - 1}

\* The private scalars of A and of B, and of a third party.
ScalarInputs == {2, 3, 7}
ThirdScalars == {5}

CommandOfVector(v) ==
    NewCommand(v[1], NewPubKey(<<v[2], v[3]>>).value, v[4], v[5], v[6], v[7])

\* The commands that differ from c in one element of its vector.
Variants(c) ==
    LET v == CommandAsArray(c)
    IN  { CommandOfVector([v EXCEPT ![i] = w]) :
            i \in 1..7, w \in ChangedInputs } \ {c}

CommandInit ==
    /\ SerialIdle /\ KeypairIdle /\ ObjectIdle /\ CopyIdle
    /\ \E v \in [1..7 -> CommandInputs] : cmd = CommandOfVector(v)
    /\ \E a \in ScalarInputs, b \in ScalarInputs :
        /\ a # b
        /\ keyA = NewKeypair(NewPrivKey(a))
        /\ keyB = NewKeypair(NewPrivKey(b))
    /\ sig = None
    /\ plain = <<>>
    /\ encKey = -1
    /\ msg = None
    /\ decKey = -1
    /\ dec = None
    /\ verdict = None
    /\ same = None

\* sig = cmd.sign(A.privKey)
CallSign ==
    /\ sig = None /\ same = None
    /\ sig' = CommandSign(cmd, keyA.privKey)
    /\ UNCHANGED <<cmd, keyA, keyB, plain, encKey, msg, decKey, dec, verdict, same>>
    /\ UNCHANGED exceptCommand

\* c.verifySignature(sig, pubKey) for c the command or a variant of it and
\* pubKey the public key of A or of B
CallVerifySignature ==
    /\ sig # None /\ verdict = None /\ msg = None
    /\ \E c \in Variants(cmd) \cup {cmd}, kp \in {keyA, keyB} :
        verdict' = [ command |-> c,
                     pubKey |-> kp.pubKey,
                     result |-> CommandVerifySignature(c, sig, kp.pubKey) ]
    /\ UNCHANGED <<cmd, keyA, keyB, sig, plain, encKey, msg, decKey, dec, same>>
    /\ UNCHANGED exceptCommand

\* cmd.equals(c) for c the command or a variant of it
CallEquals ==
    /\ sig = None /\ same = None
    /\ \E c \in Variants(cmd) \cup {cmd} :
        same' = [command |-> c, result |-> CommandEquals(cmd, c)]
    /\ UNCHANGED <<cmd, keyA, keyB, sig, plain, encKey, msg, decKey, dec, verdict>>
    /\ UNCHANGED exceptCommand

\* msg = cmd.encrypt(sig, Keypair.genEcdhSharedKey(A.privKey, B.pubKey))
CallEncrypt ==
    /\ sig # None /\ msg = None /\ verdict = None
    /\ encKey' = KeypairGenEcdhSharedKey(keyA.privKey, keyB.pubKey)
    /\ plain' = CommandPlaintext(cmd, sig)
    /\ msg' = CommandEncrypt(cmd, sig, encKey')
    /\ UNCHANGED <<cmd, keyA, keyB, sig, decKey, dec, verdict, same>>
    /\ UNCHANGED exceptCommand

\* Command.decrypt(msg, Keypair.genEcdhSharedKey(privKey, A.pubKey)) by B,
\* or by a third party
CallDecrypt ==
    /\ IsOk(msg) /\ dec = None
    /\ \E k \in {keyB.privKey.rawPrivKey} \cup ThirdScalars :
        /\ decKey' = KeypairGenEcdhSharedKey(NewPrivKey(k), keyA.pubKey)
        /\ dec' = CommandDecrypt(msg.value, decKey')
    /\ UNCHANGED <<cmd, keyA, keyB, sig, plain, encKey, msg, verdict, same>>
    /\ UNCHANGED exceptCommand

CommandNext ==
    \/ CallSign
    \/ CallVerifySignature
    \/ CallEquals
    \/ CallEncrypt
    \/ CallDecrypt

SpecCommand == CommandInit /\ [][CommandNext]_vars

-----------------------------------------------------------------------------
(* Claims about Command *)

\* The seven fields of a command in the order of the command vector.
FieldVector(c) ==
    << c.stateIndex, c.newPubKey.rawPubKey[1], c.newPubKey.rawPubKey[2],
       c.voteOptionIndex, c.newVoteWeight, c.nonce, c.salt >>

DifferingFields(c1, c2) == {i \in 1..7 : FieldVector(c1)[i] # FieldVector(c2)[i]}

\* C1: decrypting, under the shared key it was encrypted under, the message
\* of a command and a signature returns a command with the same seven
\* fields and a signature with the same R8 and S; the plaintext encrypted is
\* the command vector followed by R8[0], R8[1] and S.
C1_DecryptInvertsEncrypt ==
    (dec # None /\ decKey = encKey) =>
        /\ ~dec.threw
        /\ FieldVector(dec.value.command) = FieldVector(cmd)
        /\ dec.value.signature.R8[1] = sig.R8[1]
        /\ dec.value.signature.R8[2] = sig.R8[2]
        /\ dec.value.signature.S = sig.S
        /\ plain = FieldVector(cmd) \o <<sig.R8[1], sig.R8[2], sig.S>>
        /\ Len(plain) = 10

\* C1's case: B has decrypted, under its own derivation of the shared key,
\* what A encrypted under A's derivation.
C1_Witness ==
    /\ dec # None
    /\ decKey = encKey
    /\ decKey = KeypairGenEcdhSharedKey(keyB.privKey, keyA.pubKey)
    /\ encKey = KeypairGenEcdhSharedKey(keyA.privKey, keyB.pubKey)
    /\ sig.R8[1] # sig.R8[2]

\* C2: the signature of a command by A verifies for that command under A's
\* public key, does not verify under the public key of B, whose private key
\* differs, and does not verify under A's public key for a command that
\* differs in exactly one of the seven fields.
C2_SignatureCoversEveryField ==
    verdict # None =>
        /\ (DifferingFields(verdict.command, cmd) = {} /\ verdict.pubKey = keyA.pubKey)
              => verdict.result = TRUE
        /\ (DifferingFields(verdict.command, cmd) = {} /\ verdict.pubKey = keyB.pubKey
              /\ keyB.privKey.rawPrivKey # keyA.privKey.rawPrivKey)
              => verdict.result = FALSE
        /\ (Cardinality(DifferingFields(verdict.command, cmd)) = 1
              /\ verdict.pubKey = keyA.pubKey)
              => verdict.result = FALSE

\* C2's case: a command that differs in its salt alone was verified under
\* A's public key, and rejected.
C2_Witness ==
    /\ verdict # None
    /\ DifferingFields(verdict.command, cmd) = {7}
    /\ verdict.pubKey = keyA.pubKey
    /\ verdict.result = FALSE

\* C3 (as claimed): a.equals(b) is true exactly when the two commands agree
\* in stateIndex, both coordinates of newPubKey, voteOptionIndex,
\* newVoteWeight, nonce and salt.
C3_EqualsIsFieldwise ==
    same # None => (same.result <=> DifferingFields(same.command, cmd) = {})

-----------------------------------------------------------------------------
(* The keypair harness: two Keypairs, assignments to the fields of the       *)
(* second, and equals                                                        *)

KeypairInit ==
    /\ SerialIdle /\ CommandIdle /\ ObjectIdle /\ CopyIdle
    /\ \E a \in PrivScalars, b \in PrivScalars :
        /\ kpA = NewKeypair(NewPrivKey(a))
        /\ kpB = NewKeypair(NewPrivKey(b))
    /\ kpAssigned = FALSE
    /\ kpSame = None

\* kpB = new Keypair(): a key pair drawn by genKeypair
CallGenKeypair ==
    /\ kpSame = None /\ ~kpAssigned
    /\ \E k \in PrivScalars : kpB' = GenKeypair(k)
    /\ UNCHANGED <<kpA, kpAssigned, kpSame>>
    /\ UNCHANGED exceptKeypair

\* kpB.pubKey = new PubKey(genPubKey(k))
AssignPubKey ==
    /\ kpSame = None
    /\ \E k \in PrivScalars :
        kpB' = [kpB EXCEPT !.pubKey = NewPubKey(genPubKey(k)).value]
    /\ kpAssigned' = TRUE
    /\ UNCHANGED <<kpA, kpSame>>
    /\ UNCHANGED exceptKeypair

\* kpB.privKey = new PrivKey(k)
AssignPrivKey ==
    /\ kpSame = None
    /\ \E k \in PrivScalars : kpB' = [kpB EXCEPT !.privKey = NewPrivKey(k)]
    /\ kpAssigned' = TRUE
    /\ UNCHANGED <<kpA, kpSame>>
    /\ UNCHANGED exceptKeypair

\* kpA.equals(kpB)
CallKeypairEquals ==
    /\ kpSame = None
    /\ kpSame' = KeypairEquals(kpA, kpB)
    /\ UNCHANGED <<kpA, kpB, kpAssigned>>
    /\ UNCHANGED exceptKeypair

KeypairNext ==
    \/ CallGenKeypair
    \/ AssignPubKey
    \/ AssignPrivKey
    \/ CallKeypairEquals

SpecKeypair == KeypairInit /\ [][KeypairNext]_vars

-----------------------------------------------------------------------------
(* Claims about Keypair *)

SamePrivKey == kpA.privKey.rawPrivKey = kpB.privKey.rawPrivKey
SamePubKey == kpA.pubKey.rawPubKey = kpB.pubKey.rawPubKey

\* C4: when equality of the public keys agrees with equality of the private
\* keys, equals returns whether the private keys are equal; when the two
\* disagree it fails an assertion and returns nothing.  Two Keypairs
\* constructed from the same private key have equal public keys, and equals
\* returns true for them.
C4_EqualsAssertsAgreement ==
    /\ kpSame # None =>
        IF SamePrivKey <=> SamePubKey THEN kpSame = Ok(SamePrivKey) ELSE kpSame = Threw
    /\ (kpA # None /\ ~kpAssigned /\ SamePrivKey) =>
        /\ SamePubKey
        /\ kpSame # None => kpSame = Ok(TRUE)

\* C4's case: equals was called on equal private keys with different public
\* keys, and failed its assertion.
C4_Witness ==
    /\ kpSame = Threw
    /\ SamePrivKey
    /\ ~SamePubKey

-----------------------------------------------------------------------------
(* The construction harness: a caller that asks for one object, by a         *)
(* constructor, unserialize, decrypt or genBlankLeaf, from any input         *)

\* Arrays of one, two and three of the numeric inputs.
RawInputs == UNION {[1..n -> FieldInputs] : n \in 1..3}

\* The numeric fields the harness gives a Command.
CommandFieldInputs == {-1, 1, SNARK_FIELD_SIZE}

\* The shared keys the harness encrypts and decrypts under.
SharedKeyInputs == {3, 4}

ObjectInit ==
    /\ SerialIdle /\ CommandIdle /\ KeypairIdle /\ CopyIdle
    /\ made = None

Made(by, kind, given, result) ==
    [by |-> by, kind |-> kind, given |-> given, result |-> result]

\* new PrivKey(v)
MakePrivKey ==
    /\ made = None
    /\ \E v \in FieldInputs :
        made' = Made("new PrivKey", "PrivKey", <<v>>, Ok(NewPrivKey(v)))
    /\ UNCHANGED exceptObject

\* PrivKey.unserialize(s)
MakePrivKeyUnserialize ==
    /\ made = None
    /\ \E s \in InputStrings :
        made' = Made("PrivKey.unserialize", "PrivKey", s, PrivKeyUnserialize(s))
    /\ UNCHANGED exceptObject

\* new PubKey(raw)
MakePubKey ==
    /\ made = None
    /\ \E raw \in RawInputs :
        made' = Made("new PubKey", "PubKey", raw, NewPubKey(raw))
    /\ UNCHANGED exceptObject

\* PubKey.unserialize(s)
MakePubKeyUnserialize ==
    /\ made = None
    /\ \E s \in InputStrings \cup {SERIALIZED_PUB_KEY_PREFIX \o <<"z">>} :
        made' = Made("PubKey.unserialize", "PubKey", s, PubKeyUnserialize(s))
    /\ UNCHANGED exceptObject

\* new Keypair(new PrivKey(k)) and new Keypair()
MakeKeypair ==
    /\ made = None
    /\ \E k \in PrivScalars :
        \/ made' = Made("new Keypair(privKey)", "Keypair", <<k>>,
                        Ok(NewKeypair(NewPrivKey(k))))
        \/ made' = Made("new Keypair()", "Keypair", <<>>, Ok(GenKeypair(k)))
    /\ UNCHANGED exceptObject

\* new Message(iv, data), data an array of nine, ten or eleven numbers
MakeMessage ==
    /\ made = None
    /\ \E iv \in FieldInputs, n \in 9..11, v \in FieldInputs, w \in FieldInputs :
        LET data == [i \in 1..n |-> IF i = 1 THEN v ELSE w]
        IN  made' = Made("new Message", "Message", <<iv>> \o data, NewMessage(iv, data))
    /\ UNCHANGED exceptObject

\* new Command(...)
MakeCommand ==
    /\ made = None
    /\ \E f \in [1..5 -> CommandFieldInputs], raw \in {<<0, 0>>, Base8} :
        made' = Made("new Command", "Command", f,
                     Ok(NewCommand(f[1], NewPubKey(raw).value, f[2], f[3], f[4], f[5])))
    /\ UNCHANGED exceptObject

\* Command.decrypt(message, k2) of the message of a command encrypted under k1
MakeCommandDecrypt ==
    /\ made = None
    /\ \E v \in [1..7 -> CommandInputs], signer \in ThirdScalars,
          k1 \in SharedKeyInputs, k2 \in SharedKeyInputs :
        LET c == CommandOfVector(v)
            message == CommandEncrypt(c, CommandSign(c, NewPrivKey(signer)), k1).value
            result == CommandDecrypt(message, k2)
        IN  made' = Made("Command.decrypt", "Command", <<message.iv>> \o message.data,
                         IF result.threw THEN Threw ELSE Ok(result.value.command))
    /\ UNCHANGED exceptObject

\* new StateLeaf(...)
MakeStateLeaf ==
    /\ made = None
    /\ \E raw \in {<<0, 0>>, Base8}, root \in FieldInputs,
          balance \in FieldInputs, nonce \in FieldInputs :
        made' = Made("new StateLeaf", "StateLeaf", <<root, balance, nonce>>,
                     Ok(NewStateLeaf(NewPubKey(raw).value, root, balance, nonce)))
    /\ UNCHANGED exceptObject

\* StateLeaf.genBlankLeaf(root)
MakeBlankLeaf ==
    /\ made = None
    /\ \E root \in FieldInputs :
        made' = Made("StateLeaf.genBlankLeaf", "StateLeaf", <<root>>, GenBlankLeaf(root))
    /\ UNCHANGED exceptObject

\* StateLeaf.unserialize(s), s the serialisation of some StateLeaf
MakeStateLeafUnserialize ==
    /\ made = None
    /\ \E raw \in {<<0, 0>>, Base8}, root \in FieldInputs,
          balance \in FieldInputs, nonce \in FieldInputs :
        LET s == StateLeafSerialize(NewStateLeaf(NewPubKey(raw).value, root, balance, nonce))
        IN  made' = Made("StateLeaf.unserialize", "StateLeaf", s, StateLeafUnserialize(s))
    /\ UNCHANGED exceptObject

ObjectNext ==
    \/ MakePrivKey
    \/ MakePrivKeyUnserialize
    \/ MakePubKey
    \/ MakePubKeyUnserialize
    \/ MakeKeypair
    \/ MakeMessage
    \/ MakeCommand
    \/ MakeCommandDecrypt
    \/ MakeStateLeaf
    \/ MakeBlankLeaf
    \/ MakeStateLeafUnserialize

SpecObject == ObjectInit /\ [][ObjectNext]_vars

-----------------------------------------------------------------------------
(* Claims about the objects that exist *)

\* The PubKeys an object holds.
PubKeysOf(kind, object) ==
    IF kind = "PubKey" THEN {object}
    ELSE IF kind = "Keypair" THEN {object.pubKey}
    ELSE IF kind = "Command" THEN {object.newPubKey}
    ELSE IF kind = "StateLeaf" THEN {object.pubKey}
    ELSE {}

\* The numeric fields of a PrivKey, Message, Command or StateLeaf.
NumericFieldsOf(kind, object) ==
    IF kind = "PrivKey" THEN {object.rawPrivKey}
    ELSE IF kind = "Message"
    THEN {object.iv} \cup {object.data[i] : i \in 1..Len(object.data)}
    ELSE IF kind = "Command"
    THEN {object.stateIndex, object.voteOptionIndex, object.newVoteWeight,
          object.nonce, object.salt}
    ELSE IF kind = "StateLeaf"
    THEN {object.voteOptionTreeRoot, object.voiceCreditBalance, object.nonce}
    ELSE {}

\* C8 (as claimed): new PubKey(raw) fails exactly when raw has not two
\* elements or one of them is SNARK_FIELD_SIZE or more; so every PubKey that
\* exists, made by the constructor, unserialize, a Keypair, decrypt or
\* genBlankLeaf, holds two coordinates v with 0 <= v < SNARK_FIELD_SIZE.
C8_EveryPubKeyHoldsFieldElements ==
    made # None =>
        /\ made.by = "new PubKey" =>
            (made.result.threw <=>
                (Len(made.given) # 2
                   \/ \E i \in 1..2 : made.given[i] >= SNARK_FIELD_SIZE))
        /\ ~made.result.threw =>
            \A pk \in PubKeysOf(made.kind, made.result.value) :
                /\ Len(pk.rawPubKey) = 2
                /\ IsFieldElement(pk.rawPubKey[1])
                /\ IsFieldElement(pk.rawPubKey[2])

\* C9 (as claimed): no PrivKey, Message, Command or StateLeaf obtained by a
\* constructor, unserialize, decrypt or genBlankLeaf holds a numeric field v
\* outside 0 <= v < SNARK_FIELD_SIZE.
C9_EveryNumericFieldIsValidated ==
    (made # None /\ ~made.result.threw) =>
        \A v \in NumericFieldsOf(made.kind, made.result.value) : IsFieldElement(v)

-----------------------------------------------------------------------------
(* The heap: objects and arrays as cells that hold numbers and references,   *)
(* so that two objects can share storage                                     *)

\* A cell: nums are its numeric fields (the elements, for an array), refs its
\* fields that refer to other cells.
\*   Array      nums = the elements
\*   PrivKey    nums = <<rawPrivKey>>
\*   PubKey     refs = <<rawPubKey>>
\*   Keypair    refs = <<privKey, pubKey>>
\*   Message    nums = <<iv>>, refs = <<data>>
\*   StateLeaf  nums = <<voteOptionTreeRoot, voiceCreditBalance, nonce>>, refs = <<pubKey>>
\*   Command    nums = <<stateIndex, voteOptionIndex, newVoteWeight, nonce, salt>>,
\*              refs = <<newPubKey>>
Cell(kind, nums, refs) == [kind |-> kind, nums |-> nums, refs |-> refs]

\* A new cell at the next address.  A call that throws leaves the heap as it
\* was: what it had allocated is garbage.
Alloc(h, cell) == [threw |-> FALSE, heap |-> Append(h, cell), addr |-> Len(h) + 1]

HeapNewArray(h, elements) == Alloc(h, Cell("Array", elements, <<>>))

\* new PrivKey(rawPrivKey)
HeapNewPrivKey(h, rawPrivKey) == Alloc(h, Cell("PrivKey", <<rawPrivKey>>, <<>>))

\* new PubKey(rawPubKey), rawPubKey the address of an array: the array is
\* kept, not copied.
HeapNewPubKey(h, rawPubKey) ==
    IF NewPubKey(h[rawPubKey].nums).threw THEN Threw
    ELSE Alloc(h, Cell("PubKey", <<>>, <<rawPubKey>>))

\* new Keypair(privKey), privKey the address of a PrivKey
HeapNewKeypair(h, privKeyAddr) ==
    LET raw == HeapNewArray(h, genPubKey(h[privKeyAddr].nums[1]))
        pk == HeapNewPubKey(raw.heap, raw.addr)
    IN  IF pk.threw THEN Threw
        ELSE Alloc(pk.heap, Cell("Keypair", <<>>, <<privKeyAddr, pk.addr>>))

\* new Message(iv, data), data the address of an array
HeapNewMessage(h, iv, data) ==
    IF NewMessage(iv, h[data].nums).threw THEN Threw
    ELSE Alloc(h, Cell("Message", <<iv>>, <<data>>))

\* new StateLeaf(pubKey, ...) and new Command(..., newPubKey, ...), the
\* PubKey given by its address
HeapNewStateLeaf(h, pubKeyAddr, nums) == Alloc(h, Cell("StateLeaf", nums, <<pubKeyAddr>>))
HeapNewCommand(h, pubKeyAddr, nums) == Alloc(h, Cell("Command", nums, <<pubKeyAddr>>))

PrivKeyCopy(h, a) == HeapNewPrivKey(h, Clone(h[a].nums[1]))

\* A faulty variant of PubKey.copy: the array handed on, not copied.
PubKeyCopyShared(h, a) == HeapNewPubKey(h, h[a].refs[1])

PubKeyCopy(h, a) ==
    LET rawPubKey == h[h[a].refs[1]].nums
        raw == HeapNewArray(h, <<Clone(rawPubKey[1]), Clone(rawPubKey[2])>>)
    IN  HeapNewPubKey(raw.heap, raw.addr)

KeypairCopy(h, a) ==
    LET k == PrivKeyCopy(h, h[a].refs[1])
    IN  HeapNewKeypair(k.heap, k.addr)

MessageCopy(h, a) ==
    LET data == h[h[a].refs[1]].nums
        mapped == HeapNewArray(h, [i \in 1..Len(data) |-> Clone(data[i])])
    IN  HeapNewMessage(mapped.heap, Clone(h[a].nums[1]), mapped.addr)

StateLeafCopy(h, a) ==
    LET pk == PubKeyCopy(h, h[a].refs[1])
    IN  IF pk.threw THEN Threw
        ELSE HeapNewStateLeaf(pk.heap, pk.addr,
                              <<Clone(h[a].nums[1]), Clone(h[a].nums[2]),
                                Clone(h[a].nums[3])>>)

CommandCopy(h, a) ==
    LET pk == PubKeyCopy(h, h[a].refs[1])
    IN  IF pk.threw THEN Threw
        ELSE HeapNewCommand(pk.heap, pk.addr,
                            <<Clone(h[a].nums[1]), Clone(h[a].nums[2]),
                              Clone(h[a].nums[3]), Clone(h[a].nums[4]),
                              Clone(h[a].nums[5])>>)

\* h[a].copy()
Copy(h, a) ==
    CASE h[a].kind = "PrivKey" -> PrivKeyCopy(h, a)
      [] h[a].kind = "PubKey" -> PubKeyCopy(h, a)
      [] h[a].kind = "Keypair" -> KeypairCopy(h, a)
      [] h[a].kind = "Message" -> MessageCopy(h, a)
      [] h[a].kind = "StateLeaf" -> StateLeafCopy(h, a)
      [] h[a].kind = "Command" -> CommandCopy(h, a)

\* The cells an object is made of.
RECURSIVE Reach(_, _)
Reach(h, a) == {a} \cup UNION {Reach(h, h[a].refs[i]) : i \in 1..Len(h[a].refs)}

\* The field values of an object, those of the objects it holds included.
RECURSIVE Deep(_, _)
Deep(h, a) ==
    [ kind |-> h[a].kind,
      nums |-> h[a].nums,
      parts |-> [i \in 1..Len(h[a].refs) |-> Deep(h, h[a].refs[i])] ]

-----------------------------------------------------------------------------
(* The copy harness: an object, its copy, and assignments to the numeric *)
(* fields and array elements of either                                       *)

\* Assignments in a run.
MaxAssign == 2

\* The values assigned: a field element, and the modulus.
AssignInputs == {-1, 2, SNARK_FIELD_SIZE}

Kinds == {"PrivKey", "PubKey", "Keypair", "Message", "StateLeaf", "Command"}

\* The object the harness constructs of each kind.
Built(kind) ==
    LET raw == HeapNewArray(<<>>, Base8)
        pk == HeapNewPubKey(raw.heap, raw.addr)
        k == HeapNewPrivKey(<<>>, 3)
        data == HeapNewArray(<<>>, <<1, 2, 3, 4, 5, 6, 7, 8, 9, 10>>)
    IN  CASE kind = "PrivKey" -> k
          [] kind = "PubKey" -> pk
          [] kind = "Keypair" -> HeapNewKeypair(k.heap, k.addr)
          [] kind = "Message" -> HeapNewMessage(data.heap, 1, data.addr)
          [] kind = "StateLeaf" -> HeapNewStateLeaf(pk.heap, pk.addr, <<7, 8, 9>>)
          [] kind = "Command" -> HeapNewCommand(pk.heap, pk.addr, <<1, 3, 9, 4, 6>>)

CopyInit ==
    /\ SerialIdle /\ CommandIdle /\ KeypairIdle /\ ObjectIdle
    /\ \E kind \in Kinds : heap = Built(kind).heap /\ original = Built(kind).addr
    /\ copied = 0
    /\ assigns = 0
    /\ last = [op |-> "new", root |-> "original", addr |-> original, threw |-> FALSE]

\* copied = original.copy()
CallCopy ==
    /\ copied = 0 /\ last.op # "copy"
    /\ LET r == Copy(heap, original)
       IN  /\ heap' = IF r.threw THEN heap ELSE r.heap
           /\ copied' = IF r.threw THEN 0 ELSE r.addr
           /\ last' = [op |-> "copy", root |-> "original", addr |-> original, threw |-> r.threw]
    /\ UNCHANGED <<original, assigns>>
    /\ UNCHANGED exceptCopy

\* An assignment of v to numeric field or array element i of a cell of the
\* original (root = "original") or of the copy (root = "copy")
Assign ==
    /\ assigns < MaxAssign
    /\ \E root \in {"original", "copy"} :
        /\ root = "copy" => copied # 0
        /\ \E a \in Reach(heap, IF root = "original" THEN original ELSE copied) :
            \E i \in 1..Len(heap[a].nums), v \in AssignInputs :
                /\ heap[a].nums[i] # v
                /\ heap' = [heap EXCEPT ![a].nums[i] = v]
                /\ last' = [op |-> "assign", root |-> root, addr |-> a, threw |-> FALSE]
    /\ assigns' = assigns + 1
    /\ UNCHANGED <<original, copied>>
    /\ UNCHANGED exceptCopy

CopyNext ==
    \/ CallCopy
    \/ Assign

SpecCopy == CopyInit /\ [][CopyNext]_vars

-----------------------------------------------------------------------------
(* Claims about copy() *)

\* An object as its constructor leaves it: a PubKey, also one held by
\* another object, of two coordinates below the modulus, and a Keypair whose
\* public key is the one derived from its private key.
RECURSIVE AsConstructed(_, _)
AsConstructed(h, a) ==
    /\ h[a].kind = "PubKey" =>
        LET raw == h[h[a].refs[1]].nums
        IN  Len(raw) = 2 /\ raw[1] < SNARK_FIELD_SIZE /\ raw[2] < SNARK_FIELD_SIZE
    /\ h[a].kind = "Keypair" =>
        h[h[h[a].refs[2]].refs[1]].nums = genPubKey(h[h[a].refs[1]].nums[1])
    /\ \A i \in 1..Len(h[a].refs) : AsConstructed(h, h[a].refs[i])

\* What a step by copy() must do, for every original (always) or for one as
\* its constructor leaves it: return an object with the field values of the
\* original, made of cells the original is not made of, and leave the original
\* as it was.
CopyStep(always) ==
    (last'.op = "copy" /\ (always \/ AsConstructed(heap, original))) =>
        /\ ~last'.threw
        /\ copied' # 0
        /\ Deep(heap', copied') = Deep(heap, original)
        /\ Deep(heap', original) = Deep(heap, original)
        /\ Reach(heap', copied') \cap Reach(heap', original) = {}

\* What a step by an assignment must do: one to the copy leaves every field
\* of the original unchanged, and one to the original every field of the copy.
AssignStep ==
    /\ (last'.op = "assign" /\ last'.root = "copy")
          => Deep(heap', original) = Deep(heap, original)
    /\ (last'.op = "assign" /\ last'.root = "original" /\ copied # 0)
          => Deep(heap', copied) = Deep(heap, copied)

\* C10 (as claimed): for every PrivKey, PubKey, Keypair, Message, StateLeaf
\* and Command x, x.copy() returns an object with the field values of x that
\* shares no storage with x: assignments to the copy leave x unchanged, and
\* assignments to x leave the copy unchanged.
C10_CopyOfAnyObject == [][CopyStep(TRUE) /\ AssignStep]_vars

\* C10 (amended): the same, for every x as its constructor leaves it.
C10_CopyIsIndependent == [][CopyStep(FALSE) /\ AssignStep]_vars

\* C10's case: a coordinate of the PubKey held by the copy of a Command was
\* assigned, and the copy now differs from the Command.
C10_Witness ==
    /\ copied # 0
    /\ heap[original].kind = "Command"
    /\ last.op = "assign" /\ last.root = "copy"
    /\ heap[last.addr].kind = "Array"
    /\ Deep(heap, original) # Deep(heap, copied)
    /\ Deep(heap, original) = Deep(Built("Command").heap, Built("Command").addr)

=============================================================================
